---------------------------- MODULE Spec2Model ----------------------------
(***************************************************************************)
(* Model of token_tool.py: the single-threaded token generation loop       *)
(* (generate_tokens / TokenGenerator) and the multi-threaded account       *)
(* creation pool (create_accounts / AccountCreator), both dispatched by    *)
(* main; TokenGenerator.generate and AccountCreator.create_account are     *)
(* also run on their own.  Python threads interleave between the statements modelled as     *)
(* separate steps; a `with lock:` block is an acquire step followed by     *)
(* the body, whose last statement releases the lock.                       *)
(***************************************************************************)
EXTENDS Integers, Sequences, FiniteSets, TLC

(***************************************************************************)
(* Program constants.                                                      *)
(***************************************************************************)
MAX_ACCOUNTS == 1000

TOKEN_LENGTH == 64

USERNAME_LENGTH == 8

PASSWORD_LENGTH == 12

DOMAINS ==
    << <<"g", "m", "a", "i", "l", ".", "c", "o", "m">>,
       <<"y", "a", "h", "o", "o", ".", "c", "o", "m">>,
       <<"p", "r", "o", "t", "o", "n", "m", "a", "i", "l", ".", "c", "o", "m">>,
       <<"o", "u", "t", "l", "o", "o", "k", ".", "c", "o", "m">> >>

(***************************************************************************)
(* Bounds of the model.                                                    *)
(***************************************************************************)
\* largest worker count (-T) explored with interleavings
MaxThreads == 2

\* largest account count (-n) explored with several workers
MaxCount == 2

\* largest token count (-n) explored
MaxTokens == 2

\* seeds of the random source explored: 0..MaxSeed
MaxSeed == 3

\* calls of generate on one generator, of create_account on one creator
MaxCalls == 2

\* seeds explored for create_account called on its own: 0..MaxCreatorSeed
MaxCreatorSeed == 49

Workers == 1..MaxThreads

NoThread == 0

NoFile == [exists |-> FALSE, content |-> <<>>]

\* a file that exists with the given content
FileOf(content) == [exists |-> TRUE, content |-> content]

NoExit == -1

Services == {"custom"}

(***************************************************************************)
(* The accounts command lines explored: <<number, threads>>.  The ceiling  *)
(* itself is run with one worker, the first count above it with every      *)
(* worker count.                                                           *)
(***************************************************************************)
AccountArgs ==
    (-1..MaxCount) \X (-1..MaxThreads)
        \cup ({MAX_ACCOUNTS} \X {1})
        \cup ({MAX_ACCOUNTS + 1} \X (-1..MaxThreads))

VARIABLES
    command,        \* args.command
    num_tokens,     \* generate_tokens: num_tokens (args.number)
    token_type,     \* generate_tokens: token_type (args.type)
    seed,           \* state of the random source when the process starts
    rng,            \* state of the random source
    clock,          \* time.time(), whole seconds
    generated,      \* TokenGenerator.generated
    tokens,         \* generate_tokens: tokens
    written,        \* generate_tokens: tokens already written to the file
    num_accounts,   \* create_accounts: num_accounts (args.number)
    service,        \* create_accounts: service
    threads,        \* create_accounts: threads
    mainpc,         \* position of the main thread
    exit_code,      \* exit status of the process, NoExit while it runs
    stdout,         \* messages printed, progress lines left out
    file,           \* content of the output file, NoFile until written
    created,        \* AccountCreator.created
    creator_lock,   \* AccountCreator.lock: holder or NoThread
    accounts,       \* create_accounts: accounts
    lock,           \* create_accounts: lock, holder or NoThread
    thread_pool,    \* create_accounts: thread_pool (workers started, in order)
    joined,         \* number of threads of thread_pool already joined
    pc,             \* position of each worker
    account,        \* worker local: the record being built by create_account
    username,       \* create_account: username
    password,       \* create_account: password
    email           \* create_account: email

vars == <<command, num_tokens, token_type, seed, rng, clock, generated, tokens,
          written, num_accounts, service, threads, mainpc, exit_code, stdout,
          file, created, creator_lock, accounts, lock, thread_pool, joined,
          pc, account, username, password, email>>

mainVars == <<command, num_tokens, token_type, seed, num_accounts, service, threads>>

tokVars == <<rng, clock, generated, tokens, written>>

poolVars == <<created, creator_lock, accounts, lock, pc, account>>

credVars == <<username, password, email>>

(***************************************************************************)
(* f"{n:07d}": decimal digits, zero-padded on the left to width 7.         *)
(***************************************************************************)
RECURSIVE ZeroPad(_, _)
ZeroPad(s, width) == IF Len(s) >= width THEN s ELSE ZeroPad("0" \o s, width)

\* f"{service}_acc_{n:07d}"
FormatAccountId(svc, n) == svc \o "_acc_" \o ZeroPad(ToString(n), 7)

(***************************************************************************)
(* Text is a sequence of one-character strings.  The character sets of     *)
(* the string module.                                                      *)
(***************************************************************************)
ascii_lowercase ==
    <<"a", "b", "c", "d", "e", "f", "g", "h", "i", "j", "k", "l", "m", "n",
      "o", "p", "q", "r", "s", "t", "u", "v", "w", "x", "y", "z">>

ascii_uppercase ==
    <<"A", "B", "C", "D", "E", "F", "G", "H", "I", "J", "K", "L", "M", "N",
      "O", "P", "Q", "R", "S", "T", "U", "V", "W", "X", "Y", "Z">>

digits == <<"0", "1", "2", "3", "4", "5", "6", "7", "8", "9">>

ascii_letters == ascii_lowercase \o ascii_uppercase

hexdigits == digits \o SubSeq(ascii_lowercase, 1, 6) \o SubSeq(ascii_uppercase, 1, 6)

CharsOf(s) == {s[i] : i \in 1..Len(s)}

\* str.upper() and str.lower(): letters change case, other characters stay
UpperChar(c) ==
    IF c \in CharsOf(ascii_lowercase)
    THEN ascii_uppercase[CHOOSE i \in 1..Len(ascii_lowercase) : ascii_lowercase[i] = c]
    ELSE c

LowerChar(c) ==
    IF c \in CharsOf(ascii_uppercase)
    THEN ascii_lowercase[CHOOSE i \in 1..Len(ascii_uppercase) : ascii_uppercase[i] = c]
    ELSE c

Upper(s) == [i \in 1..Len(s) |-> UpperChar(s[i])]

Lower(s) == [i \in 1..Len(s) |-> LowerChar(s[i])]

(***************************************************************************)
(* The random module: a deterministic generator over 16-bit states,        *)
(* stepped once per draw by a fixed odd increment.  random.choices(        *)
(* population, k=k) takes population[floor(random() * n)] k times, the     *)
(* i-th time from the state after i draws.                                 *)
(***************************************************************************)
\* the state of the random source after k draws
RandAfter(s, k) == IF k <= 0 THEN s ELSE (s + k * 40503) % 65536

NextRand(s) == RandAfter(s, 1)

\* random.seed(a): the state a seed puts the source in
SeedState(a) == (a * 25173 + 13849) % 65536

RandIndex(s, n) == ((s * n) \div 65536) + 1

Choices(population, k, s) ==
    [i \in 1..k |-> population[RandIndex(RandAfter(s, i), Len(population))]]

\* sep.join(parts)
RECURSIVE Join(_, _)
Join(sep, parts) ==
    IF parts = <<>> THEN <<>>
    ELSE IF Len(parts) = 1 THEN parts[1]
    ELSE parts[1] \o sep \o Join(sep, Tail(parts))

\* str(n) for an integer n >= 0
IntText(n) ==
    LET width == IF n = 0 THEN 1
                 ELSE CHOOSE d \in 1..10 : (n \div (10 ^ (d - 1))) \in 1..9
    IN  [i \in 1..width |-> digits[((n \div (10 ^ (width - i))) % 10) + 1]]

(***************************************************************************)
(* TokenGenerator._generate_uuid, _generate_jwt and the branches of        *)
(* generate.  s is the state of the random source at the call; t1 and t2   *)
(* are the two readings of time.time().                                    *)
(***************************************************************************)
\* variant: the groups are drawn from hexdigits as it is, both cases
GenerateUuidMixedCase(s) ==
    Join(<<"-">>,
         << Choices(hexdigits, 8, s),
            Choices(hexdigits, 4, RandAfter(s, 8)),
            Choices(hexdigits, 4, RandAfter(s, 12)),
            Choices(hexdigits, 4, RandAfter(s, 16)),
            Choices(hexdigits, 12, RandAfter(s, 20)) >>)

GenerateUuid(s) ==
    Join(<<"-">>,
         << Choices(Lower(hexdigits), 8, s),
            Choices(Lower(hexdigits), 4, RandAfter(s, 8)),
            Choices(Lower(hexdigits), 4, RandAfter(s, 12)),
            Choices(Lower(hexdigits), 4, RandAfter(s, 16)),
            Choices(Lower(hexdigits), 12, RandAfter(s, 20)) >>)

JwtHeader ==
    <<"{", "\"", "a", "l", "g", "\"", ":", " ", "\"", "H", "S", "2",
      "5", "6", "\"", ",", " ", "\"", "t", "y", "p", "\"", ":", " ", "\"", "J", "W", "T", "\"", "}">>

JwtPayload(sub, iat, exp) ==
    <<"{", "\"", "s", "u", "b", "\"", ":", " ", "\"", "u", "s", "e", "r", "_">> \o sub \o <<"\"", ",", " ", "\"", "i", "a", "t", "\"", ":", " ">> \o IntText(iat)
        \o <<",", " ", "\"", "e", "x", "p", "\"", ":", " ">> \o IntText(exp) \o <<"}">>

GenerateJwt(s, t1, t2) ==
    JwtHeader \o <<".">>
        \o JwtPayload(Choices(digits, 9, s), t1, t2 + 3600) \o <<".">>
        \o Choices(hexdigits, 64, RandAfter(s, 9))

\* variant: a kind that is not one of the five yields no token
GenerateKnownOnly(kind, s, t1, t2) ==
    IF kind = "hex" THEN Choices(Upper(hexdigits), TOKEN_LENGTH, s)
    ELSE IF kind = "numeric" THEN Choices(digits, TOKEN_LENGTH, s)
    ELSE IF kind = "uuid" THEN GenerateUuid(s)
    ELSE IF kind = "jwt" THEN GenerateJwt(s, t1, t2)
    ELSE IF kind = "alphanumeric" THEN Choices(ascii_letters \o digits, TOKEN_LENGTH, s)
    ELSE <<>>

Generate(kind, s, t1, t2) ==
    IF kind = "hex" THEN Choices(Upper(hexdigits), TOKEN_LENGTH, s)
    ELSE IF kind = "numeric" THEN Choices(digits, TOKEN_LENGTH, s)
    ELSE IF kind = "uuid" THEN GenerateUuid(s)
    ELSE IF kind = "jwt" THEN GenerateJwt(s, t1, t2)
    ELSE Choices(ascii_letters \o digits, TOKEN_LENGTH, s)

\* the number of draws generate takes from the random source
Draws(kind) ==
    IF kind = "uuid" THEN 32
    ELSE IF kind = "jwt" THEN 73
    ELSE TOKEN_LENGTH

(***************************************************************************)
(* AccountCreator._generate_username, _generate_password and               *)
(* _generate_email.  s is the state of the random source at the call.      *)
(***************************************************************************)
\* random.choice(seq)
Choice(seq, s) == seq[RandIndex(NextRand(s), Len(seq))]

\* the list of prefixes in _generate_username
prefixes ==
    << <<"u", "s", "e", "r">>, <<"a", "d", "m", "i", "n">>, <<"t", "e", "s", "t">>,
       <<"d", "e", "m", "o">>, <<"t", "e", "m", "p">> >>

\* the characters added to letters and digits in _generate_password
PasswordSymbols == <<"!", "@", "#", "$", "%", "^", "&", "*">>

\* variant: the suffix fills what the prefix leaves of USERNAME_LENGTH
GenerateUsernameFixedLength(s) ==
    LET prefix == Choice(prefixes, s)
        suffix == Choices(ascii_lowercase \o digits,
                          USERNAME_LENGTH - Len(prefix) - 1, NextRand(s))
    IN  prefix \o <<"_">> \o suffix

GenerateUsername(s) ==
    LET prefix == Choice(prefixes, s)
        suffix == Choices(ascii_lowercase \o digits, USERNAME_LENGTH - 4, NextRand(s))
    IN  prefix \o <<"_">> \o suffix

GeneratePassword(s) ==
    Choices(ascii_letters \o digits \o PasswordSymbols, PASSWORD_LENGTH, s)

GenerateEmail(name, s) == name \o <<"@">> \o Choice(DOMAINS, s)

\* the draws from the random source: username, password, email, and the
\* whole of create_account with the user agent and the status
UsernameDraws == 1 + (USERNAME_LENGTH - 4)

CreateAccountDraws == UsernameDraws + PASSWORD_LENGTH + 1 + 1 + 1

\* the values argparse accepts for -t
CliTypes == {"alphanumeric", "hex", "numeric", "uuid", "jwt"}

\* the values generate is called with: the five above and unknown ones
TokenKinds == CliTypes \cup {"base64", ""}

Clocks == {9, 1700000000}

PoolInit ==
    /\ created = 0
    /\ creator_lock = NoThread
    /\ accounts = <<>>
    /\ lock = NoThread
    /\ thread_pool = <<>>
    /\ joined = 0
    /\ pc = [w \in Workers |-> "idle"]
    /\ account = [w \in Workers |-> [service |-> "", account_id |-> ""]]

ProcessInit ==
    /\ exit_code = NoExit
    /\ stdout = <<>>
    /\ file = NoFile
    /\ rng = SeedState(seed)
    /\ generated = 0
    /\ tokens = <<>>
    /\ written = 0
    /\ username = <<>>
    /\ password = <<>>
    /\ email = <<>>

InitAccounts ==
    /\ command = "accounts"
    /\ \E a \in AccountArgs : num_accounts = a[1] /\ threads = a[2]
    /\ service \in Services
    /\ num_tokens = 0
    /\ token_type = "alphanumeric"
    /\ seed = 0
    /\ clock = 0

InitTokens ==
    /\ command = "tokens"
    /\ num_tokens \in -1..MaxTokens
    /\ token_type \in CliTypes
    /\ seed \in 0..MaxSeed
    /\ clock \in Clocks
    /\ num_accounts = 0
    /\ threads = 0
    /\ service \in Services

Init ==
    /\ InitAccounts \/ InitTokens
    /\ mainpc = "dispatch"
    /\ ProcessInit
    /\ PoolInit

Running == exit_code = NoExit

(***************************************************************************)
(* main: dispatch on args.command inside the try block.                    *)
(***************************************************************************)
MainDispatch ==
    /\ Running /\ mainpc = "dispatch"
    /\ mainpc' = IF command = "tokens" THEN "begin" ELSE "ceiling"
    /\ UNCHANGED <<credVars, mainVars, tokVars, exit_code, stdout, file, poolVars, thread_pool, joined>>

(***************************************************************************)
(* TokenGenerator.generate(kind): the counter goes up by one under the     *)
(* generator's lock, then the token is drawn.  Only the calling thread     *)
(* uses the generator, so the lock is free when it is taken.               *)
(***************************************************************************)
GenerateCall(kind) ==
    \E tick \in 0..1 :
        /\ generated' = generated + 1
        /\ tokens' = Append(tokens, Generate(kind, rng, clock, clock + tick))
        /\ rng' = RandAfter(rng, Draws(kind))
        /\ clock' = IF kind = "jwt" THEN clock + tick ELSE clock

(***************************************************************************)
(* generate_tokens: the generator and the list, the loop, the file.        *)
(***************************************************************************)
BeginTokens ==
    /\ Running /\ mainpc = "begin"
    /\ generated' = 0
    /\ tokens' = <<>>
    /\ stdout' = Append(stdout, [msg |-> "generating", max |-> num_tokens])
    /\ mainpc' = "loop"
    /\ UNCHANGED <<credVars, mainVars, rng, clock, written, exit_code, file, poolVars,
                   thread_pool, joined>>

\* for i in range(num_tokens): tokens.append(generator.generate(token_type))
GenerateToken ==
    /\ Running /\ mainpc = "loop"
    /\ IF Len(tokens) < num_tokens
       THEN /\ GenerateCall(token_type)
            /\ mainpc' = mainpc
       ELSE /\ mainpc' = "open"
            /\ UNCHANGED <<rng, clock, generated, tokens>>
    /\ UNCHANGED <<credVars, mainVars, written, exit_code, stdout, file, poolVars,
                   thread_pool, joined>>

\* with open(output_file, 'w') as f: the file is created or truncated
OpenTokens ==
    /\ Running /\ mainpc = "open"
    /\ file' = FileOf(<<>>)
    /\ written' = 0
    /\ mainpc' = "lines"
    /\ UNCHANGED <<credVars, mainVars, rng, clock, generated, tokens, exit_code, stdout,
                   poolVars, thread_pool, joined>>

\* variant: the tokens are written without the newline
WriteTokenNoNewline ==
    /\ Running /\ mainpc = "lines"
    /\ IF written < Len(tokens)
       THEN /\ file' = FileOf(file.content \o tokens[written + 1])
            /\ written' = written + 1
            /\ UNCHANGED <<stdout, mainpc>>
       ELSE /\ stdout' = Append(stdout, [msg |-> "saved", max |-> Len(tokens)])
            /\ mainpc' = "return"
            /\ UNCHANGED <<file, written>>
    /\ UNCHANGED <<credVars, mainVars, rng, clock, generated, tokens, exit_code, poolVars,
                   thread_pool, joined>>

\* for token in tokens: f.write(token + '\n'), then the closing message
WriteToken ==
    /\ Running /\ mainpc = "lines"
    /\ IF written < Len(tokens)
       THEN /\ file' = FileOf(file.content \o tokens[written + 1] \o <<"\n">>)
            /\ written' = written + 1
            /\ UNCHANGED <<stdout, mainpc>>
       ELSE /\ stdout' = Append(stdout, [msg |-> "saved", max |-> Len(tokens)])
            /\ mainpc' = "return"
            /\ UNCHANGED <<file, written>>
    /\ UNCHANGED <<credVars, mainVars, rng, clock, generated, tokens, exit_code, poolVars,
                   thread_pool, joined>>

(***************************************************************************)
(* create_accounts: the safety limit, then creator, accounts and lock.     *)
(***************************************************************************)
\* variant: the limit itself is refused too
CheckCeilingInclusive ==
    /\ Running /\ mainpc = "ceiling"
    /\ IF num_accounts >= MAX_ACCOUNTS
       THEN /\ stdout' = Append(stdout, [msg |-> "limit", max |-> MAX_ACCOUNTS])
            /\ mainpc' = "return"
       ELSE /\ stdout' = Append(stdout, [msg |-> "creating", max |-> num_accounts])
            /\ mainpc' = "spawn"
    /\ UNCHANGED <<credVars, mainVars, tokVars, exit_code, file, poolVars, thread_pool, joined>>

\* variant: the refusal ends the process with a status of its own
CheckCeilingExits ==
    /\ Running /\ mainpc = "ceiling"
    /\ IF num_accounts > MAX_ACCOUNTS
       THEN /\ stdout' = Append(stdout, [msg |-> "limit", max |-> MAX_ACCOUNTS])
            /\ exit_code' = 2
            /\ mainpc' = "return"
       ELSE /\ stdout' = Append(stdout, [msg |-> "creating", max |-> num_accounts])
            /\ exit_code' = exit_code
            /\ mainpc' = "spawn"
    /\ UNCHANGED <<credVars, mainVars, tokVars, file, poolVars, thread_pool, joined>>

CheckCeiling ==
    /\ Running /\ mainpc = "ceiling"
    /\ IF num_accounts > MAX_ACCOUNTS
       THEN /\ stdout' = Append(stdout, [msg |-> "limit", max |-> MAX_ACCOUNTS])
            /\ mainpc' = "return"
       ELSE /\ stdout' = Append(stdout, [msg |-> "creating", max |-> num_accounts])
            /\ mainpc' = "spawn"
    /\ UNCHANGED <<credVars, mainVars, tokVars, exit_code, file, poolVars, thread_pool, joined>>

\* variant: one thread is started even when none is asked for
StartThreadAtLeastOne ==
    /\ Running /\ mainpc = "spawn"
    /\ IF Len(thread_pool) < threads \/ thread_pool = <<>>
       THEN LET w == Len(thread_pool) + 1 IN
            /\ pc' = [pc EXCEPT ![w] = "lock1"]
            /\ thread_pool' = Append(thread_pool, w)
            /\ mainpc' = mainpc
       ELSE /\ mainpc' = "join"
            /\ UNCHANGED <<pc, thread_pool>>
    /\ UNCHANGED <<credVars, mainVars, tokVars, exit_code, stdout, file, created, creator_lock,
                   accounts, lock, account, joined>>

\* for _ in range(threads): t.start(); thread_pool.append(t)
StartThread ==
    /\ Running /\ mainpc = "spawn"
    /\ IF Len(thread_pool) < threads
       THEN LET w == Len(thread_pool) + 1 IN
            /\ pc' = [pc EXCEPT ![w] = "lock1"]
            /\ thread_pool' = Append(thread_pool, w)
            /\ mainpc' = mainpc
       ELSE /\ mainpc' = "join"
            /\ UNCHANGED <<pc, thread_pool>>
    /\ UNCHANGED <<credVars, mainVars, tokVars, exit_code, stdout, file, created, creator_lock,
                   accounts, lock, account, joined>>

\* variant: the threads are counted off without waiting for them
JoinThreadNoWait ==
    /\ Running /\ mainpc = "join"
    /\ IF joined < Len(thread_pool)
       THEN /\ joined' = joined + 1
            /\ mainpc' = mainpc
       ELSE /\ mainpc' = "write"
            /\ joined' = joined
    /\ UNCHANGED <<credVars, mainVars, tokVars, exit_code, stdout, file, poolVars, thread_pool>>

\* for t in thread_pool: t.join()
JoinThread ==
    /\ Running /\ mainpc = "join"
    /\ IF joined < Len(thread_pool)
       THEN /\ pc[thread_pool[joined + 1]] = "done"
            /\ joined' = joined + 1
            /\ mainpc' = mainpc
       ELSE /\ mainpc' = "write"
            /\ joined' = joined
    /\ UNCHANGED <<credVars, mainVars, tokVars, exit_code, stdout, file, poolVars, thread_pool>>

(***************************************************************************)
(* json.dump(accounts, f, indent=2): a JSON array with one object per      *)
(* record, the members of an object in the insertion order of the dict     *)
(* built by create_account.                                                *)
(***************************************************************************)
JsonObject(r) == << <<"service", r.service>>, <<"account_id", r.account_id>> >>

JsonDump(accs) == [i \in 1..Len(accs) |-> JsonObject(accs[i])]

\* with open(output_file, 'w') as f: the file is created or truncated
OpenOutput ==
    /\ Running /\ mainpc = "write"
    /\ file' = FileOf(<<>>)
    /\ mainpc' = "dump"
    /\ UNCHANGED <<credVars, mainVars, tokVars, exit_code, stdout, poolVars, thread_pool, joined>>

\* json.dump(accounts, f, indent=2), then the closing message
DumpAccounts ==
    /\ Running /\ mainpc = "dump"
    /\ file' = FileOf(JsonDump(accounts))
    /\ stdout' = Append(stdout, [msg |-> "created", max |-> Len(accounts)])
    /\ mainpc' = "return"
    /\ UNCHANGED <<credVars, mainVars, tokVars, exit_code, poolVars, thread_pool, joined>>

(***************************************************************************)
(* create_accounts.worker, one loop iteration.                             *)
(***************************************************************************)
WorkerAlive(w) == Running /\ w \in Workers

\* variant: the first block is entered without waiting for the lock
AcquireCheckNoWait(w) ==
    /\ WorkerAlive(w) /\ pc[w] = "lock1"
    /\ lock' = w
    /\ pc' = [pc EXCEPT ![w] = "check"]
    /\ UNCHANGED <<credVars, mainVars, tokVars, mainpc, exit_code, stdout, file, created,
                   creator_lock, accounts, account, thread_pool, joined>>

\* with lock: (first block) acquire
AcquireCheck(w) ==
    /\ WorkerAlive(w) /\ pc[w] = "lock1"
    /\ lock = NoThread
    /\ lock' = w
    /\ pc' = [pc EXCEPT ![w] = "check"]
    /\ UNCHANGED <<credVars, mainVars, tokVars, mainpc, exit_code, stdout, file, created,
                   creator_lock, accounts, account, thread_pool, joined>>

\* variant: the worker returns only when the list is longer than asked
CheckDoneAbove(w) ==
    /\ WorkerAlive(w) /\ pc[w] = "check"
    /\ lock = w
    /\ pc' = [pc EXCEPT ![w] = IF Len(accounts) > num_accounts THEN "done" ELSE "synth"]
    /\ lock' = NoThread
    /\ UNCHANGED <<credVars, mainVars, tokVars, mainpc, exit_code, stdout, file, created,
                   creator_lock, accounts, account, thread_pool, joined>>

\* variant: the worker returns one record early
CheckDoneEarly(w) ==
    /\ WorkerAlive(w) /\ pc[w] = "check"
    /\ lock = w
    /\ pc' = [pc EXCEPT ![w] = IF Len(accounts) + 1 >= num_accounts THEN "done" ELSE "synth"]
    /\ lock' = NoThread
    /\ UNCHANGED <<credVars, mainVars, tokVars, mainpc, exit_code, stdout, file, created,
                   creator_lock, accounts, account, thread_pool, joined>>

\* variant: the return leaves the lock held
CheckDoneKeepsLock(w) ==
    /\ WorkerAlive(w) /\ pc[w] = "check"
    /\ lock = w
    /\ IF Len(accounts) >= num_accounts
       THEN /\ pc' = [pc EXCEPT ![w] = "done"]
            /\ lock' = lock
       ELSE /\ pc' = [pc EXCEPT ![w] = "synth"]
            /\ lock' = NoThread
    /\ UNCHANGED <<credVars, mainVars, tokVars, mainpc, exit_code, stdout, file, created,
                   creator_lock, accounts, account, thread_pool, joined>>

\* if len(accounts) >= num_accounts: return; otherwise target, which nothing
\* reads, is set; the block ends and releases the lock
CheckDone(w) ==
    /\ WorkerAlive(w) /\ pc[w] = "check"
    /\ lock = w
    /\ pc' = [pc EXCEPT ![w] = IF Len(accounts) >= num_accounts THEN "done" ELSE "synth"]
    /\ lock' = NoThread
    /\ UNCHANGED <<credVars, mainVars, tokVars, mainpc, exit_code, stdout, file, created,
                   creator_lock, accounts, account, thread_pool, joined>>

\* variant: the id is numbered from the counter itself, not the counter plus one
SynthesizeFromZero(w) ==
    /\ WorkerAlive(w) /\ pc[w] = "synth"
    /\ account' = [account EXCEPT ![w] =
                      [service |-> service,
                       account_id |-> FormatAccountId(service, created)]]
    /\ pc' = [pc EXCEPT ![w] = "lock_c"]
    /\ UNCHANGED <<credVars, mainVars, tokVars, mainpc, exit_code, stdout, file, created,
                   creator_lock, accounts, lock, thread_pool, joined>>

\* create_account: the delay, then the record's fields; account_id reads
\* self.created before the lock of the increment is taken.  The credentials,
\* the timestamp, the user agent and the status come from the random source
\* and the clock alone: they neither read nor write what the workers share,
\* and the record carries the service and the account_id.
Synthesize(w) ==
    /\ WorkerAlive(w) /\ pc[w] = "synth"
    /\ account' = [account EXCEPT ![w] =
                      [service |-> service,
                       account_id |-> FormatAccountId(service, created + 1)]]
    /\ pc' = [pc EXCEPT ![w] = "lock_c"]
    /\ UNCHANGED <<credVars, mainVars, tokVars, mainpc, exit_code, stdout, file, created,
                   creator_lock, accounts, lock, thread_pool, joined>>

\* create_account: with self.lock: acquire
AcquireCreator(w) ==
    /\ WorkerAlive(w) /\ pc[w] = "lock_c"
    /\ creator_lock = NoThread
    /\ creator_lock' = w
    /\ pc' = [pc EXCEPT ![w] = "incr"]
    /\ UNCHANGED <<credVars, mainVars, tokVars, mainpc, exit_code, stdout, file, created,
                   accounts, lock, account, thread_pool, joined>>

\* variant: the counter is set from the size of the list
IncrementFromLength(w) ==
    /\ WorkerAlive(w) /\ pc[w] = "incr"
    /\ creator_lock = w
    /\ created' = Len(accounts) + 1
    /\ creator_lock' = NoThread
    /\ pc' = [pc EXCEPT ![w] = "lock2"]
    /\ UNCHANGED <<credVars, mainVars, tokVars, mainpc, exit_code, stdout, file,
                   accounts, lock, account, thread_pool, joined>>

\* create_account: self.created += 1, release, return the record
Increment(w) ==
    /\ WorkerAlive(w) /\ pc[w] = "incr"
    /\ creator_lock = w
    /\ created' = created + 1
    /\ creator_lock' = NoThread
    /\ pc' = [pc EXCEPT ![w] = "lock2"]
    /\ UNCHANGED <<credVars, mainVars, tokVars, mainpc, exit_code, stdout, file,
                   accounts, lock, account, thread_pool, joined>>

\* with lock: (second block) acquire
AcquireAppend(w) ==
    /\ WorkerAlive(w) /\ pc[w] = "lock2"
    /\ lock = NoThread
    /\ lock' = w
    /\ pc' = [pc EXCEPT ![w] = "append"]
    /\ UNCHANGED <<credVars, mainVars, tokVars, mainpc, exit_code, stdout, file, created,
                   creator_lock, accounts, account, thread_pool, joined>>

\* variant: the record is inserted at the front of the list
AppendAccountAtFront(w) ==
    /\ WorkerAlive(w) /\ pc[w] = "append"
    /\ lock = w
    /\ accounts' = <<account[w]>> \o accounts
    /\ lock' = NoThread
    /\ pc' = [pc EXCEPT ![w] = "lock1"]
    /\ UNCHANGED <<credVars, mainVars, tokVars, mainpc, exit_code, stdout, file, created,
                   creator_lock, account, thread_pool, joined>>

\* accounts.append(account), release; then the progress line is printed and
\* the loop starts over
AppendAccount(w) ==
    /\ WorkerAlive(w) /\ pc[w] = "append"
    /\ lock = w
    /\ accounts' = Append(accounts, account[w])
    /\ lock' = NoThread
    /\ pc' = [pc EXCEPT ![w] = "lock1"]
    /\ UNCHANGED <<credVars, mainVars, tokVars, mainpc, exit_code, stdout, file, created,
                   creator_lock, account, thread_pool, joined>>

(***************************************************************************)
(* main: the end of the try block, and KeyboardInterrupt raised in the     *)
(* main thread anywhere inside it.  The workers are daemon threads: they   *)
(* end with the process.                                                   *)
(***************************************************************************)
MainReturn ==
    /\ Running /\ mainpc = "return"
    /\ exit_code' = 0
    /\ mainpc' = "end"
    /\ UNCHANGED <<credVars, mainVars, tokVars, stdout, file, poolVars, thread_pool, joined>>

\* except KeyboardInterrupt: print, sys.exit(1)
Interrupt ==
    /\ Running /\ mainpc \in {"dispatch", "begin", "loop", "open", "lines",
                              "ceiling", "spawn", "join", "write", "dump", "return"}
    /\ stdout' = Append(stdout, [msg |-> "cancelled", max |-> 0])
    /\ exit_code' = 1
    /\ UNCHANGED <<credVars, mainVars, tokVars, mainpc, file, poolVars, thread_pool, joined>>

Worker(w) ==
    \/ AcquireCheck(w)
    \/ CheckDone(w)
    \/ Synthesize(w)
    \/ AcquireCreator(w)
    \/ Increment(w)
    \/ AcquireAppend(w)
    \/ AppendAccount(w)

Main ==
    \/ MainDispatch
    \/ BeginTokens
    \/ GenerateToken
    \/ OpenTokens
    \/ WriteToken
    \/ CheckCeiling
    \/ StartThread
    \/ JoinThread
    \/ OpenOutput
    \/ DumpAccounts
    \/ MainReturn

Next ==
    \/ Main
    \/ \E w \in Workers : Worker(w)
    \/ Interrupt

Spec == Init /\ [][Next]_vars

\* every thread that can take a step is scheduled again
FairSpec ==
    /\ Spec
    /\ WF_vars(Main)
    /\ \A w \in Workers : WF_vars(Worker(w))

(***************************************************************************)
(* TokenGenerator used on its own: generate called up to MaxCalls times    *)
(* on one generator, with any kind.                                        *)
(***************************************************************************)
InitGenerate ==
    /\ command = "generate"
    /\ mainpc = "api"
    /\ num_tokens = 0
    /\ token_type \in TokenKinds
    /\ seed \in 0..MaxSeed
    /\ clock \in Clocks
    /\ num_accounts = 0
    /\ threads = 0
    /\ service \in Services
    /\ ProcessInit
    /\ PoolInit

CallGenerate ==
    /\ mainpc = "api"
    /\ generated < MaxCalls
    /\ \E kind \in TokenKinds :
        /\ token_type' = kind
        /\ GenerateCall(kind)
    /\ UNCHANGED <<command, num_tokens, seed, num_accounts, service, threads,
                   written, mainpc, exit_code, stdout, file, poolVars,
                   thread_pool, joined, credVars>>

SpecGenerate == InitGenerate /\ [][CallGenerate]_vars

(***************************************************************************)
(* AccountCreator used on its own by one thread: create_account called up  *)
(* to MaxCalls times on one creator, as the worker calls it, with the      *)
(* service alone.  The delay passes, the credentials are generated, the    *)
(* id is formed, the user agent is drawn, the counter goes up under the    *)
(* creator's lock, which is free, and the status is drawn for the record.  *)
(***************************************************************************)
InitCreate ==
    /\ command = "create_account"
    /\ mainpc = "api"
    /\ num_tokens = 0
    /\ token_type = ""
    /\ seed \in 0..MaxCreatorSeed
    /\ clock \in Clocks
    /\ num_accounts = 0
    /\ threads = 0
    /\ service \in Services
    /\ ProcessInit
    /\ PoolInit

CallCreateAccount ==
    /\ command = "create_account" /\ mainpc = "api"
    /\ created < MaxCalls
    /\ creator_lock = NoThread
    /\ username' = GenerateUsername(rng)
    /\ password' = GeneratePassword(RandAfter(rng, UsernameDraws))
    /\ email' = GenerateEmail(username', RandAfter(rng, UsernameDraws + PASSWORD_LENGTH))
    /\ account' = [account EXCEPT ![1] =
                      [service |-> service,
                       account_id |-> FormatAccountId(service, created + 1)]]
    /\ created' = created + 1
    /\ rng' = RandAfter(rng, CreateAccountDraws)
    /\ UNCHANGED <<mainVars, clock, generated, tokens, written, mainpc, exit_code,
                   stdout, file, creator_lock, accounts, lock, pc, thread_pool,
                   joined>>

SpecCreate == InitCreate /\ [][CallCreateAccount]_vars

(***************************************************************************)
(* Properties of create_accounts.                                          *)
(***************************************************************************)
Printed(m) == \E i \in 1..Len(stdout) : stdout[i].msg = m

\* create_accounts has passed its safety limit test
PastCeiling == command = "accounts" /\ mainpc \notin {"dispatch", "ceiling"}

\* the workers the pool was asked for
Pool == 1..threads

(***************************************************************************)
(* C1: during create_accounts with 0 <= count <= 1000 the shared           *)
(* collection never holds more than count records, whatever the number of  *)
(* workers and their interleaving.                                         *)
(***************************************************************************)
NeverExceedsCount ==
    (command = "accounts" /\ num_accounts >= 0 /\ num_accounts <= MAX_ACCOUNTS)
        => Len(accounts) <= num_accounts

(***************************************************************************)
(* C2: when create_accounts has completed for 0 <= N <= 1000 and at least  *)
(* one worker, the array written to the output file holds exactly N        *)
(* records.                                                                *)
(***************************************************************************)
WritesExactlyCount ==
    (/\ command = "accounts"
     /\ mainpc \in {"return", "end"}
     /\ num_accounts >= 0 /\ num_accounts <= MAX_ACCOUNTS
     /\ threads >= 1)
        => file.exists /\ Len(file.content) = num_accounts

(***************************************************************************)
(* C3: the records of the collection have pairwise distinct account_id.    *)
(* Stated for the states in which the collection holds at most count       *)
(* records, so that a repeated id is not an effect of the overshoot of C1. *)
(***************************************************************************)
DistinctAccountIds ==
    (command = "accounts" /\ Len(accounts) <= num_accounts) =>
        \A i, j \in 1..Len(accounts) :
            i # j => accounts[i].account_id # accounts[j].account_id

(***************************************************************************)
(* C4: create_accounts refuses exactly when count > 1000.  A refused call  *)
(* starts no worker, creates no record, leaves the creator's counter and   *)
(* the collection untouched, writes no file, reports the limit and         *)
(* returns; a call with count <= 1000 never reports the limit and goes on  *)
(* to the pool.                                                            *)
(***************************************************************************)
RefusesAboveCeiling ==
    command = "accounts" =>
        /\ Printed("limit") <=> (PastCeiling /\ num_accounts > MAX_ACCOUNTS)
        /\ (PastCeiling /\ num_accounts > MAX_ACCOUNTS) =>
              /\ mainpc \in {"return", "end"}
              /\ thread_pool = <<>>
              /\ \A w \in Workers : pc[w] = "idle"
              /\ created = 0
              /\ accounts = <<>>
              /\ file = NoFile
              /\ ~Printed("creating")
        /\ (PastCeiling /\ num_accounts <= MAX_ACCOUNTS) =>
              /\ Printed("creating")
              /\ mainpc \in {"spawn", "join", "write", "dump", "return", "end"}
        /\ (mainpc = "end" /\ num_accounts <= MAX_ACCOUNTS) => file.exists

RefusedCall ==
    /\ command = "accounts"
    /\ num_accounts = MAX_ACCOUNTS + 1
    /\ threads >= 1
    /\ Printed("limit")
    /\ mainpc = "end"

(***************************************************************************)
(* C5: for count <= 1000 and at least one worker, under fair scheduling    *)
(* every worker terminates and create_accounts gets past the joins to the  *)
(* write of the output, unless the user interrupts the process first.      *)
(***************************************************************************)
AllJoined == mainpc = "write" /\ \A w \in Pool : pc[w] = "done"

WorkersTerminate ==
    <>(\/ command # "accounts"
       \/ num_accounts > MAX_ACCOUNTS
       \/ threads < 1
       \/ exit_code = 1
       \/ AllJoined)

PoolJoined ==
    /\ command = "accounts"
    /\ threads >= 2
    /\ num_accounts >= 2
    /\ AllJoined

(***************************************************************************)
(* C6: the output file of create_accounts exists only once every worker    *)
(* has terminated, the finished file holds the records of the collection   *)
(* in collection order, and from the moment the write starts no record is  *)
(* appended to the collection.                                             *)
(***************************************************************************)
\* the records a dumped array holds
RecordsOf(content) ==
    [i \in 1..Len(content) |->
        [service |-> content[i][1][2], account_id |-> content[i][2][2]]]

WriteStarted == command = "accounts" /\ mainpc \in {"write", "dump", "return", "end"}

WrittenAfterJoin ==
    /\ [](command = "accounts" =>
            /\ (file.exists \/ mainpc \in {"write", "dump"}) =>
                  /\ \A w \in Pool : pc[w] = "done"
                  /\ \A w \in Workers : pc[w] \in {"idle", "done"}
            /\ (file.exists /\ mainpc \in {"return", "end"}) =>
                  RecordsOf(file.content) = accounts)
    /\ [][WriteStarted => accounts' = accounts]_vars

AccountsWritten ==
    /\ command = "accounts"
    /\ mainpc = "end"
    /\ file.exists
    /\ Len(accounts) >= 2

(***************************************************************************)
(* Properties of generate_tokens and TokenGenerator.                       *)
(***************************************************************************)
\* the positions of the character c in a text
PositionsOf(text, c) == {i \in 1..Len(text) : text[i] = c}

\* the number of newline characters of a text
Newlines(text) == Cardinality(PositionsOf(text, "\n"))

\* text.split(sep) for a one-character separator
SplitOn(text, sep) ==
    LET at == PositionsOf(text, sep)
        n == Cardinality(at)
        pos(k) == IF k = 0 THEN 0
                  ELSE IF k = n + 1 THEN Len(text) + 1
                  ELSE CHOOSE i \in at : Cardinality({j \in at : j <= i}) = k
    IN  [k \in 1..(n + 1) |-> SubSeq(text, pos(k - 1) + 1, pos(k) - 1)]

\* the lines of a text file: what each newline ends, and an unfinished last line
SplitLines(text) ==
    LET parts == SplitOn(text, "\n")
    IN  IF parts[Len(parts)] = <<>> THEN SubSeq(parts, 1, Len(parts) - 1) ELSE parts

\* tokens[i] is what the i-th call of generate draws, counting from the seed
IsIthToken(i) ==
    LET s == RandAfter(SeedState(seed), (i - 1) * Draws(token_type))
    IN  \E t1 \in (clock - num_tokens)..clock : \E t2 \in {t1, t1 + 1} :
            tokens[i] = Generate(token_type, s, t1, t2)

(***************************************************************************)
(* C7: generate_tokens(N, kind, path) with N >= 0 calls generate exactly   *)
(* N times and writes exactly N lines, line i being the i-th token         *)
(* generated for the kind.                                                 *)
(***************************************************************************)
WritesEveryToken ==
    command = "tokens" =>
        /\ generated = Len(tokens)
        /\ (mainpc \in {"return", "end"} /\ num_tokens >= 0) =>
              /\ generated = num_tokens
              /\ file.exists
              /\ Newlines(file.content) = num_tokens
              /\ SplitLines(file.content) = tokens
              /\ \A i \in 1..num_tokens : IsIthToken(i)

TokensWritten ==
    /\ command = "tokens"
    /\ mainpc = "end"
    /\ num_tokens >= 2
    /\ file.exists

(***************************************************************************)
(* C8: generate with a kind other than hex, numeric, uuid and jwt, known   *)
(* or not, returns the token the alphanumeric branch builds: 64 draws      *)
(* from the letters and digits.                                            *)
(***************************************************************************)
UnknownKindIsAlphanumeric ==
    [][token_type' \notin {"hex", "numeric", "uuid", "jwt"} =>
          /\ generated' = generated + 1
          /\ tokens' = Append(tokens, Choices(ascii_letters \o digits, 64, rng))
          /\ rng' = RandAfter(rng, 64)]_vars

UnknownKindGenerated ==
    /\ command = "generate"
    /\ token_type \in {"base64", ""}
    /\ Len(tokens) >= 1

(***************************************************************************)
(* C9: an alphanumeric, hex or numeric token has exactly 64 characters,    *)
(* all of the kind's character set; a uuid token is five groups of         *)
(* lowercase hexadecimal characters of lengths 8, 4, 4, 4, 12 separated    *)
(* by hyphens.                                                             *)
(***************************************************************************)
DecimalChars == {"0", "1", "2", "3", "4", "5", "6", "7", "8", "9"}

LowerHexChars == DecimalChars \cup {"a", "b", "c", "d", "e", "f"}

HexChars == LowerHexChars \cup {"A", "B", "C", "D", "E", "F"}

LetterChars == CharsOf(ascii_lowercase) \cup CharsOf(ascii_uppercase)

TokenShape ==
    tokens # <<>> =>
        LET t == tokens[Len(tokens)]
            groups == SplitOn(t, "-")
        IN  /\ token_type = "alphanumeric" =>
                  Len(t) = 64 /\ CharsOf(t) \subseteq LetterChars \cup DecimalChars
            /\ token_type = "hex" =>
                  Len(t) = 64 /\ CharsOf(t) \subseteq HexChars
            /\ token_type = "numeric" =>
                  Len(t) = 64 /\ CharsOf(t) \subseteq DecimalChars
            /\ token_type = "uuid" =>
                  /\ Len(groups) = 5
                  /\ [i \in 1..5 |-> Len(groups[i])] = <<8, 4, 4, 4, 12>>
                  /\ \A i \in 1..5 : CharsOf(groups[i]) \subseteq LowerHexChars

UuidGenerated ==
    /\ command = "generate"
    /\ token_type = "uuid"
    /\ Len(tokens) >= 1

(***************************************************************************)
(* C10: the process ends with status 0 when main completes, with status 1  *)
(* when the user interrupts the tokens or accounts operation, and a        *)
(* refused account count ends as a completion does: status 0, no file.     *)
(***************************************************************************)
ExitStatus ==
    /\ exit_code \in {NoExit, 0, 1}
    /\ exit_code = 0 <=> mainpc = "end"
    /\ exit_code = 1 <=> Printed("cancelled")
    /\ (exit_code = 0 /\ command = "tokens") => Printed("saved") /\ file.exists
    /\ (exit_code = 0 /\ command = "accounts" /\ num_accounts <= MAX_ACCOUNTS) =>
          Printed("created") /\ file.exists
    /\ (command = "accounts" /\ num_accounts > MAX_ACCOUNTS) =>
          /\ file = NoFile
          /\ (Printed("limit") /\ ~Running /\ ~Printed("cancelled")) => exit_code = 0
          /\ exit_code = 0 => Printed("limit")

InterruptedWhileJoining ==
    /\ command = "accounts"
    /\ mainpc = "join"
    /\ exit_code = 1
    /\ \E w \in Pool : pc[w] # "done"

\* no step lowers the creator's counter or shortens the collection
CountersMonotone ==
    [][created' >= created /\ Len(accounts') >= Len(accounts)]_vars

(***************************************************************************)
(* C11: the creator's counter and the size of the collection never         *)
(* decrease (CountersMonotone), and for 0 <= count <= 1000 both stay at    *)
(* or below count in every reachable state.                                *)
(***************************************************************************)
CountersBoundedByCount ==
    (command = "accounts" /\ num_accounts >= 0 /\ num_accounts <= MAX_ACCOUNTS)
        => created <= num_accounts /\ Len(accounts) <= num_accounts

(***************************************************************************)
(* C12: the read of the counter that numbers a record and the increment    *)
(* are one atomic step: at the increment of a worker, the number in the    *)
(* record it is building is the value the counter takes.  Stated for the   *)
(* increments that keep the counter at or below count, so that a stale     *)
(* number is not an effect of the overshoot of C1.                         *)
(***************************************************************************)
NumberedByOwnIncrement ==
    [][\A w \in Workers :
          (pc[w] = "incr" /\ pc'[w] = "lock2" /\ created' <= num_accounts) =>
              account[w].account_id = FormatAccountId(service, created')]_vars

\* the workers inside a block of the collection lock
InCollectionLock == {w \in Workers : pc[w] \in {"check", "append"}}

(***************************************************************************)
(* C13: at most one worker is inside a block of the collection lock; the   *)
(* size check and the append are made by the worker that holds it; a       *)
(* worker in the delay or the synthesis of create_account holds neither    *)
(* lock, and the creator's lock is held for the increment alone.           *)
(***************************************************************************)
LockScope ==
    /\ Cardinality(InCollectionLock) <= 1
    /\ \A w \in Workers :
          /\ pc[w] \in {"check", "append"} <=> lock = w
          /\ pc[w] = "incr" <=> creator_lock = w
          /\ pc[w] = "synth" => (lock # w /\ creator_lock # w)
    /\ lock \in Workers \cup {NoThread}
    /\ creator_lock \in Workers \cup {NoThread}

\* one worker appends while another is in its delay or synthesis
AppendsDuringSynthesis ==
    \E w, v \in Workers : pc[w] = "synth" /\ pc[v] = "append" /\ lock = v

\* the steps one worker can take from each position of its loop
WorkerFlow(w) ==
    /\ (pc[w] # "done" /\ pc'[w] = "done") =>
          (pc[w] = "check" /\ lock = w /\ Len(accounts) >= num_accounts)
    /\ (pc[w] = "check" /\ pc'[w] # "check" /\ Len(accounts) < num_accounts) =>
          pc'[w] = "synth"
    /\ (pc[w] = "synth" /\ pc'[w] # "synth") => pc'[w] = "lock_c"
    /\ (pc[w] = "lock_c" /\ pc'[w] # "lock_c") => pc'[w] = "incr"
    /\ (pc[w] = "incr" /\ pc'[w] # "incr") => pc'[w] = "lock2"
    /\ (pc[w] = "lock2" /\ pc'[w] # "lock2") => pc'[w] = "append"
    /\ (pc[w] = "append" /\ pc'[w] # "append") =>
          (pc'[w] = "lock1" /\ accounts' = Append(accounts, account[w]))
    /\ pc[w] = "done" => pc'[w] = "done"

(***************************************************************************)
(* C14: a worker terminates only at the size check, holding the lock and   *)
(* seeing at least count records, so whenever some worker has terminated   *)
(* the collection holds at least count records; a worker that sees fewer   *)
(* goes to create_account, and from there its only way on is through the   *)
(* increment to the append of its one record.                              *)
(***************************************************************************)
TerminatesOnlyAtCheck ==
    /\ []((\E w \in Workers : pc[w] = "done") => Len(accounts) >= num_accounts)
    /\ [][\A w \in Workers : WorkerFlow(w)]_vars

\* a worker has terminated after records were asked for and made
TerminatedAfterRecords ==
    /\ num_accounts >= 1
    /\ Len(accounts) >= num_accounts
    /\ \E w \in Workers : pc[w] = "done"

(***************************************************************************)
(* C15: the collection is append-only.  A step that changes it is the      *)
(* append of one worker: the records already there keep their positions,   *)
(* the worker's record is added at the end, and the worker leaves the      *)
(* append, so that it cannot add that record again.                        *)
(***************************************************************************)
AppendOnly ==
    [][accounts' # accounts =>
          /\ Len(accounts') = Len(accounts) + 1
          /\ SubSeq(accounts', 1, Len(accounts)) = accounts
          /\ \E w \in Workers :
                /\ pc[w] = "append" /\ pc'[w] = "lock1"
                /\ accounts'[Len(accounts')] = account[w]
                /\ \A v \in Workers \ {w} : pc'[v] = pc[v]]_vars

\* two records with different ids are in the collection
TwoRecordsAppended ==
    /\ Len(accounts) >= 2
    /\ accounts[1].account_id # accounts[2].account_id

(***************************************************************************)
(* Properties of AccountCreator.                                           *)
(***************************************************************************)
(***************************************************************************)
(* C16: a generated username is prefix, '_', suffix: the prefix is one of  *)
(* user, admin, test, demo, temp; the suffix is USERNAME_LENGTH - 4 = 4    *)
(* lowercase letters or digits whatever the prefix; the length is that of  *)
(* the prefix plus 5, which is 9 or 10 and never USERNAME_LENGTH.  The     *)
(* email is the username, '@', and one of the four domains.                *)
(***************************************************************************)
UsernameShape ==
    (command = "create_account" /\ created >= 1) =>
        LET parts == SplitOn(username, "_") IN
        /\ Len(parts) = 2
        /\ parts[1] \in { <<"u", "s", "e", "r">>, <<"a", "d", "m", "i", "n">>,
                          <<"t", "e", "s", "t">>, <<"d", "e", "m", "o">>,
                          <<"t", "e", "m", "p">> }
        /\ Len(parts[2]) = USERNAME_LENGTH - 4
        /\ Len(parts[2]) = 4
        /\ CharsOf(parts[2]) \subseteq CharsOf(ascii_lowercase) \cup DecimalChars
        /\ Len(username) = Len(parts[1]) + 5
        /\ Len(username) \in {9, 10}
        /\ Len(username) # USERNAME_LENGTH
        /\ \E i \in 1..Len(DOMAINS) : email = username \o <<"@">> \o DOMAINS[i]
        /\ Len(DOMAINS) = 4

\* a username with the five-letter prefix has been generated
AdminUsernameGenerated ==
    /\ command = "create_account"
    /\ created >= 1
    /\ SubSeq(username, 1, 6) = <<"a", "d", "m", "i", "n", "_">>
    /\ Len(username) = 10

(***************************************************************************)
(* Further properties of create_accounts.                                  *)
(***************************************************************************)
\* the workers between a passed size check and their append
InFlight == {w \in Workers : pc[w] \in {"synth", "lock_c", "incr", "lock2", "append"}}

\* the workers whose increment is made and whose record is not yet appended
Unappended == {w \in Workers : pc[w] \in {"lock2", "append"}}

\* every thread of the pool has been joined
JoinsDone == mainpc \in {"write", "dump", "return", "end"}

(***************************************************************************)
(* C17: for 1 <= count <= 1000 and T >= 1 workers the collection never     *)
(* holds more than count + T - 1 records, the records in flight included,  *)
(* and at least count once the workers are joined.  Once the collection    *)
(* holds count records no worker starts another record, so each worker     *)
(* appends at most the one it has in flight.                               *)
(***************************************************************************)
OvershootBounded ==
    /\ []((/\ command = "accounts"
           /\ num_accounts >= 1 /\ num_accounts <= MAX_ACCOUNTS
           /\ threads >= 1) =>
              /\ Len(accounts) <= num_accounts + threads - 1
              /\ Len(accounts) + Cardinality(InFlight) <= num_accounts + threads - 1
              /\ JoinsDone => Len(accounts) >= num_accounts)
    /\ [][(command = "accounts" /\ Len(accounts) >= num_accounts) =>
              /\ InFlight' \subseteq InFlight
              /\ Len(accounts') - Len(accounts) = Cardinality(InFlight \ InFlight')]_vars

\* the largest overshoot: every worker has appended past the check
LargestOvershoot ==
    /\ command = "accounts"
    /\ num_accounts >= 1
    /\ threads >= 2
    /\ Len(accounts) = num_accounts + threads - 1

(***************************************************************************)
(* C18: the creator's counter is the size of the collection plus the       *)
(* number of workers that have incremented it and not yet appended: it is  *)
(* never below the size, no increment is lost, and with every worker       *)
(* terminated the two are equal.                                           *)
(***************************************************************************)
CreatedCoversCollection ==
    command = "accounts" =>
        /\ created >= Len(accounts)
        /\ created - Len(accounts) <= Cardinality(Unappended)
        /\ created = Len(accounts) + Cardinality(Unappended)
        /\ (\A w \in Workers : pc[w] \in {"idle", "done"}) => created = Len(accounts)

\* two workers have incremented the counter and not yet appended
TwoUnappended ==
    /\ command = "accounts"
    /\ Cardinality(Unappended) = 2
    /\ created = Len(accounts) + 2

(***************************************************************************)
(* C19: with one worker and 0 <= count <= 1000 the record at position i    *)
(* has sequence number i, the collection never holds more than count       *)
(* records, and exactly count records are there after the join and in the  *)
(* file.                                                                   *)
(***************************************************************************)
SingleWorkerNumbering ==
    (/\ command = "accounts"
     /\ threads = 1
     /\ num_accounts >= 0 /\ num_accounts <= MAX_ACCOUNTS) =>
        /\ Len(accounts) <= num_accounts
        /\ \A i \in 1..Len(accounts) :
              accounts[i].account_id = FormatAccountId(service, i)
        /\ Len(accounts) >= 1 => accounts[1].account_id = "custom_acc_0000001"
        /\ Len(accounts) >= 2 => accounts[2].account_id = "custom_acc_0000002"
        /\ Len(accounts) >= MAX_ACCOUNTS =>
              accounts[MAX_ACCOUNTS].account_id = "custom_acc_0001000"
        /\ JoinsDone => Len(accounts) = num_accounts
        /\ mainpc \in {"return", "end"} =>
              (file.exists /\ Len(file.content) = num_accounts)

\* one worker has made the thousand records of the ceiling
SingleWorkerAtCeiling ==
    /\ command = "accounts"
    /\ threads = 1
    /\ num_accounts = MAX_ACCOUNTS
    /\ mainpc = "end"
    /\ Len(accounts) = MAX_ACCOUNTS

(***************************************************************************)
(* C20: degenerate inputs.  With count <= 0 the workers terminate at their *)
(* first check, with no worker asked for none runs; either way the         *)
(* counter stays 0, no record is made, and the file written is the empty   *)
(* array, so that no worker and count >= 1 gives fewer than count records. *)
(***************************************************************************)
DegenerateOutcome ==
    /\ created = 0
    /\ accounts = <<>>
    /\ \A w \in Workers : pc[w] \in {"idle", "lock1", "check", "done"}
    /\ threads <= 0 => (thread_pool = <<>> /\ \A w \in Workers : pc[w] = "idle")
    /\ mainpc \in {"return", "end"} =>
          /\ file = FileOf(<<>>)
          /\ num_accounts >= 1 => Len(file.content) < num_accounts

(***************************************************************************)
(* C20 as stated: for every call with count <= 0 or no worker.             *)
(***************************************************************************)
DegenerateInputs ==
    (command = "accounts" /\ (num_accounts <= 0 \/ threads <= 0)) =>
        DegenerateOutcome

(***************************************************************************)
(* C20 for the calls the safety limit accepts (count <= 1000): a refused   *)
(* call returns before the file is opened.                                 *)
(***************************************************************************)
DegenerateAcceptedInputs ==
    (/\ command = "accounts"
     /\ num_accounts <= MAX_ACCOUNTS
     /\ (num_accounts <= 0 \/ threads <= 0)) =>
        DegenerateOutcome

\* a call for records with no worker has completed
NoWorkerCompleted ==
    /\ command = "accounts"
    /\ threads = 0
    /\ num_accounts >= 1 /\ num_accounts <= MAX_ACCOUNTS
    /\ mainpc = "end"
    /\ file = FileOf(<<>>)

=============================================================================
